---- MODULE Spec2Model ----
(***************************************************************************)
(* Client-side encryption layer of the shared password manager             *)
(* (lib/encryption.ts): the Key Store (getEncryptionKey) and the Cipher    *)
(* (encrypt, decrypt), with the platform primitives they call: btoa/atob,  *)
(* TextEncoder/TextDecoder, localStorage and the Web Crypto AES-GCM.       *)
(*                                                                         *)
(* Strings are sequences of code points (integers), byte arrays are        *)
(* sequences of 0..255.                                                    *)
(***************************************************************************)
EXTENDS Integers, Sequences, FiniteSets, TLC

(***************************************************************************)
(* Bounds of the model.                                                    *)
(***************************************************************************)
\* longest plaintext, in code points
MaxLen == 2
\* number of encrypt/decrypt calls made on the profile
MaxCalls == 3
\* number of envelopes encrypt is asked for
MaxEnvelopes == 2
\* number of calls in flight together
MaxInFlight == 2
\* number of times the key slot is cleared or overwritten from outside
MaxStorageEvents == 2
\* number of accounts
MaxUsers == 2
\* number of rows inserted into the tables
MaxIds == 2
\* number of different rows the forms hand to the database
MaxForms == 2

(***************************************************************************)
(* Program and platform constants.                                         *)
(***************************************************************************)
\* iv length: new Uint8Array(12), combined.slice(0, 12)
IvLen == 12
\* AES-GCM tag length in bytes (Web Crypto default tagLength 128)
TagLen == 16
\* raw length of an AES-256 key in bytes ({ name: 'AES-GCM', length: 256 })
KeyLen == 32
\* U+FEFF, the byte order mark
BOM == 65279
\* U+FFFD, the decoder's replacement character
Replacement == 65533
\* the largest number of arguments one function call can pass.  It is a limit of
\* the engine (65535 in JavaScriptCore, set by the stack size in V8 and
\* SpiderMonkey, a few hundred thousand at most), here scaled to the lengths the
\* model explores: above the 32 bytes of a key, below the longest plaintexts
MaxArguments == 48

Null == <<-1>>

\* '[Decryption failed]'
Sentinel ==
  <<91, 68, 101, 99, 114, 121, 112, 116, 105, 111, 110, 32, 102, 97, 105, 108, 101, 100, 93>>

(***************************************************************************)
(* btoa / atob (forgiving-base64 decode of the HTML standard).             *)
(***************************************************************************)
\* '='
PadChar == 61
\* ASCII whitespace that atob strips: TAB, LF, FF, CR, SPACE
AsciiWhitespace == {9, 10, 12, 13, 32}

B64Char(v) ==
  IF v < 26 THEN 65 + v
  ELSE IF v < 52 THEN 97 + (v - 26)
  ELSE IF v < 62 THEN 48 + (v - 52)
  ELSE IF v = 62 THEN 43
  ELSE 47

B64Alphabet == {B64Char(v) : v \in 0..63}

B64Val(c) ==
  IF c >= 65 /\ c <= 90 THEN c - 65
  ELSE IF c >= 97 /\ c <= 122 THEN c - 97 + 26
  ELSE IF c >= 48 /\ c <= 57 THEN c - 48 + 52
  ELSE IF c = 43 THEN 62
  ELSE 63

\* btoa(String.fromCharCode(...bytes))
btoa(bytes) ==
  LET n == Len(bytes)
      B(i) == IF i <= n THEN bytes[i] ELSE 0
      groups == (n + 2) \div 3
  IN [i \in 1..(4 * groups) |->
        LET g == (i - 1) \div 4
            j == (i - 1) % 4
            x == B(3 * g + 1)
            y == B(3 * g + 2)
            z == B(3 * g + 3)
        IN IF j = 0 THEN B64Char(x \div 4)
           ELSE IF j = 1 THEN B64Char((x % 4) * 16 + (y \div 16))
           ELSE IF j = 2 THEN
                  IF 3 * g + 2 > n THEN PadChar
                  ELSE B64Char((y % 16) * 4 + (z \div 64))
           ELSE IF 3 * g + 3 > n THEN PadChar
                ELSE B64Char(z % 64)]

NotWhitespace(c) == c \notin AsciiWhitespace

\* atob(s): [ok |-> FALSE, ...] stands for the InvalidCharacterError it throws
atob(s) ==
  LET t == SelectSeq(s, NotWhitespace)
      u == IF Len(t) % 4 = 0 /\ Len(t) >= 2 /\ t[Len(t)] = PadChar /\ t[Len(t) - 1] = PadChar
             THEN SubSeq(t, 1, Len(t) - 2)
           ELSE IF Len(t) % 4 = 0 /\ Len(t) >= 1 /\ t[Len(t)] = PadChar
             THEN SubSeq(t, 1, Len(t) - 1)
           ELSE t
      m == Len(u)
  IN IF m % 4 = 1 \/ \E i \in 1..m : u[i] \notin B64Alphabet
       THEN [ok |-> FALSE, bytes |-> <<>>]
       ELSE [ok |-> TRUE,
             bytes |-> [k \in 1..((m * 6) \div 8) |->
                LET off == 8 * (k - 1)
                    c == (off \div 6) + 1
                    r == off % 6
                    v1 == B64Val(u[c])
                    v2 == B64Val(u[c + 1])
                IN IF r = 0 THEN v1 * 4 + (v2 \div 16)
                   ELSE IF r = 2 THEN (v1 % 16) * 16 + (v2 \div 4)
                   ELSE (v1 % 4) * 64 + v2]]

(***************************************************************************)
(* TextEncoder.encode / TextDecoder.decode (UTF-8, Encoding standard).     *)
(***************************************************************************)
Utf8Bytes(cp) ==
  IF cp < 128 THEN <<cp>>
  ELSE IF cp < 2048 THEN <<192 + (cp \div 64), 128 + (cp % 64)>>
  ELSE IF cp < 65536 THEN
         <<224 + (cp \div 4096), 128 + ((cp \div 64) % 64), 128 + (cp % 64)>>
  ELSE <<240 + (cp \div 262144), 128 + ((cp \div 4096) % 64),
         128 + ((cp \div 64) % 64), 128 + (cp % 64)>>

RECURSIVE TextEncode(_)
\* new TextEncoder().encode(str)
TextEncode(str) ==
  IF str = <<>> THEN <<>>
  ELSE Utf8Bytes(Head(str)) \o TextEncode(Tail(str))

\* bytes needed after lead byte x (0: x stands alone, -1: x is no lead byte)
Utf8Needed(x) ==
  IF x < 128 THEN 0
  ELSE IF x >= 194 /\ x <= 223 THEN 1
  ELSE IF x >= 224 /\ x <= 239 THEN 2
  ELSE IF x >= 240 /\ x <= 244 THEN 3
  ELSE -1

\* allowed range of the first continuation byte after lead byte x
Utf8Lower(x) == IF x = 224 THEN 160 ELSE IF x = 240 THEN 144 ELSE 128
Utf8Upper(x) == IF x = 237 THEN 159 ELSE IF x = 244 THEN 143 ELSE 191

\* number of valid continuation bytes (at most need) that follow bytes[i]
Utf8Follow(bytes, i, need) ==
  LET ok(j) == /\ i + j <= Len(bytes)
               /\ IF j = 1
                    THEN bytes[i + 1] >= Utf8Lower(bytes[i]) /\ bytes[i + 1] <= Utf8Upper(bytes[i])
                    ELSE bytes[i + j] >= 128 /\ bytes[i + j] <= 191
      good == {j \in 0..need : \A h \in 1..j : ok(h)}
  IN CHOOSE j \in good : \A h \in good : h <= j

Utf8CodePoint(bytes, i, need) ==
  IF need = 1 THEN (bytes[i] - 192) * 64 + (bytes[i + 1] - 128)
  ELSE IF need = 2 THEN
         (bytes[i] - 224) * 4096 + (bytes[i + 1] - 128) * 64 + (bytes[i + 2] - 128)
  ELSE (bytes[i] - 240) * 262144 + (bytes[i + 1] - 128) * 4096
         + (bytes[i + 2] - 128) * 64 + (bytes[i + 3] - 128)

RECURSIVE Utf8Decode(_, _)
\* the UTF-8 decoder with error mode "replacement" (fatal: false)
Utf8Decode(bytes, i) ==
  IF i > Len(bytes) THEN <<>>
  ELSE LET x == bytes[i]
           need == Utf8Needed(x)
       IN IF need = 0 THEN <<x>> \o Utf8Decode(bytes, i + 1)
          ELSE IF need = -1 THEN <<Replacement>> \o Utf8Decode(bytes, i + 1)
          ELSE LET got == Utf8Follow(bytes, i, need)
               IN IF got = need
                    THEN <<Utf8CodePoint(bytes, i, need)>> \o Utf8Decode(bytes, i + need + 1)
                    ELSE <<Replacement>> \o Utf8Decode(bytes, i + got + 1)

\* new TextDecoder().decode(bytes): ignoreBOM defaults to false, so a leading
\* U+FEFF is dropped from the output
TextDecode(bytes) ==
  LET out == Utf8Decode(bytes, 1)
  IN IF out # <<>> /\ Head(out) = BOM THEN Tail(out) ELSE out

(***************************************************************************)
(* Web Crypto: key generation, import and AES-GCM.  The backend is         *)
(* modelled as an ideal AEAD: a keystream cipher followed by a 16-byte     *)
(* tag that depends on every byte of the key, the iv and the ciphertext.   *)
(* The secure random source hands out values it has not handed out before. *)
(***************************************************************************)
\* a generator that produces the same key every time
KeyBytesRepeated(i) == [j \in 1..KeyLen |-> (89 + j * 31) % 256]

\* the i-th key crypto.subtle.generateKey produces, as raw bytes
KeyBytes(i) == [j \in 1..KeyLen |-> (i * 89 + j * 31) % 256]

\* the n-th value of crypto.getRandomValues(new Uint8Array(12))
NonceBytes(n) == [j \in 1..IvLen |-> (n * 53 + j * 7) % 256]

\* crypto.subtle.importKey('raw', keyBuffer, 'AES-GCM'): a DataError unless the
\* buffer holds 128, 192 or 256 bits
ImportableKey(keyBuffer) == Len(keyBuffer) \in {16, 24, 32}

KeyStream(key, iv, i) ==
  (key[((i - 1) % Len(key)) + 1] + iv[((i - 1) % Len(iv)) + 1] + i) % 256

RECURSIVE Digest(_, _, _, _)
\* a position-weighted checksum of msg[lo..hi]; which picks the weights
Digest(msg, lo, hi, which) ==
  IF lo > hi THEN 0
  ELSE IF lo = hi THEN
         (msg[lo] + 1) * (IF which = 1 THEN lo ELSE lo * lo + 1)
  ELSE LET mid == (lo + hi) \div 2
       IN Digest(msg, lo, mid, which) + Digest(msg, mid + 1, hi, which)

GcmTag(key, iv, ct) ==
  LET msg == key \o iv \o <<Len(iv)>> \o ct
      a == Digest(msg, 1, Len(msg), 1) % 32749
      b == Digest(msg, 1, Len(msg), 2) % 32749
  IN [j \in 1..TagLen |->
        IF j = 1 THEN a % 256
        ELSE IF j = 2 THEN a \div 256
        ELSE IF j = 3 THEN b % 256
        ELSE IF j = 4 THEN b \div 256
        ELSE ((a + j * b) % 32749) % 256]

\* crypto.subtle.encrypt({ name: 'AES-GCM', iv }, key, data): ciphertext ++ tag
AesGcmEncrypt(key, iv, data) ==
  LET ct == [i \in 1..Len(data) |-> (data[i] + KeyStream(key, iv, i)) % 256]
  IN ct \o GcmTag(key, iv, ct)

\* a decryption that skips the tag comparison
AesGcmDecryptUnauthenticated(key, iv, data) ==
  IF Len(data) < TagLen THEN [ok |-> FALSE, bytes |-> <<>>]
  ELSE LET n == Len(data) - TagLen
       IN [ok |-> TRUE,
           bytes |-> [i \in 1..n |-> (data[i] + 512 - KeyStream(key, iv, i)) % 256]]

\* crypto.subtle.decrypt({ name: 'AES-GCM', iv }, key, data):
\* [ok |-> FALSE, ...] stands for the OperationError it rejects with
AesGcmDecrypt(key, iv, data) ==
  IF Len(data) < TagLen THEN [ok |-> FALSE, bytes |-> <<>>]
  ELSE LET n == Len(data) - TagLen
           ct == SubSeq(data, 1, n)
           tag == SubSeq(data, n + 1, Len(data))
       IN IF tag # GcmTag(key, iv, ct) THEN [ok |-> FALSE, bytes |-> <<>>]
          ELSE [ok |-> TRUE,
                bytes |-> [i \in 1..n |-> (ct[i] + 512 - KeyStream(key, iv, i)) % 256]]

\* combined.slice(0, 12) and combined.slice(12)
SliceIv(combined) == SubSeq(combined, 1, IF Len(combined) < IvLen THEN Len(combined) ELSE IvLen)
SliceData(combined) == SubSeq(combined, IvLen + 1, Len(combined))

(***************************************************************************)
(* Values of the program.                                                  *)
(***************************************************************************)
\* code points the plaintexts are made of: 'a' and U+FEFF
Alphabet == {97, BOM}

RECURSIVE StringsUpTo(_)
StringsUpTo(n) ==
  IF n = 0 THEN {<<>>}
  ELSE LET shorter == StringsUpTo(n - 1)
       IN shorter \cup {Append(s, ch) : s \in shorter, ch \in Alphabet}

\* the plaintexts callers pass to encrypt, the empty string among them
Plaintexts == StringsUpTo(MaxLen)

\* the empty string and "a"
ShortPlaintexts == {<<>>, <<97>>}

\* "a", and the longest string of 'a' whose envelope bytes one call can pass
\* together with the string that is one character longer
LongPlaintexts ==
  {[i \in 1..n |-> 97] : n \in {1, MaxArguments - IvLen - TagLen,
                                 MaxArguments - IvLen - TagLen + 1}}

\* `!plaintext`, `!ciphertext`: the argument is the empty string
IsEmptyNever(str) == FALSE
IsEmpty(str) == str = <<>>

\* `if (keyData)` fails: getItem returned null or the empty string
NoKeyData(keyData) == keyData = Null \/ keyData = <<>>

\* the key a stored value imports as, <<>> if it imports as none
ImportedKey(keyData) ==
  IF NoKeyData(keyData) THEN <<>>
  ELSE LET keyBuffer == atob(keyData)
       IN IF keyBuffer.ok /\ ImportableKey(keyBuffer.bytes) THEN keyBuffer.bytes ELSE <<>>

\* what an async function settles with
Value(v) == [kind |-> "value", val |-> v]
Thrown == [kind |-> "error", val |-> <<>>]
Pending == [kind |-> "none", val |-> <<>>]

\* the catch block of decrypt: return '[Decryption failed]'
DecryptFailureRethrown == Thrown
DecryptFailure == Value(Sentinel)

(***************************************************************************)
(* State.                                                                  *)
(***************************************************************************)
VARIABLES
  storage,        \* localStorage.getItem('pm_encryption_key'): Null or a string
  calls,          \* the async encrypt/decrypt calls, in the order they are made
  keysGenerated,  \* keys crypto.subtle.generateKey has produced so far
  noncesDrawn,    \* 12-byte values crypto.getRandomValues has produced so far
  issued,         \* history: the envelopes encrypt has returned
  setItemCalls,   \* history: how often getEncryptionKey has called setItem
  storageEvents,  \* history: how often the key slot was changed from outside
  log,            \* what console.error has been given by the Key Store and the Cipher
  form,           \* the form being submitted (PasswordForm, TextFileForm)
  sent,           \* history: the rows the forms have handed to supabase
  profiles,       \* table user_profiles
  passwords,      \* table shared_passwords
  textFiles,      \* table shared_text_files
  auditLogs,      \* table audit_logs
  nextId,         \* the uuids gen_random_uuid() has handed out so far
  list,           \* the state of the PasswordList component while it is mounted
  panel,          \* the state of each user's AdminPanel component
  lastOp          \* history: the last statement, if it was an update, a delete or a
                  \* view of a shared row

cipherVars ==
  <<storage, calls, keysGenerated, noncesDrawn, issued, setItemCalls, storageEvents, log>>

formVars == <<form, sent>>
listVars == <<list, panel>>
dbVars == <<profiles, passwords, textFiles, auditLogs, nextId, lastOp>>
appVars == <<formVars, listVars, dbVars>>

vars == <<cipherVars, appVars>>

Calls == 1..MaxCalls

\* the accounts of auth.users: user 1 has been made an administrator
Users == 1..MaxUsers

\* SQL NULL in a uuid column
NullId == 0

\* no such statement.  permitted and changed are history: whether the user was the
\* row's creator or an administrator when the statement ran, and whether the
\* statement changed its table
NoOp ==
  [table |-> "", op |-> "", uid |-> NullId, id |-> NullId,
   permitted |-> FALSE, changed |-> FALSE]

\* every account has the profile the signup trigger made for it
DbInit ==
  /\ profiles = [u \in Users |-> [exists |-> TRUE, is_admin |-> (u = 1)]]
  /\ passwords = {}
  /\ textFiles = {}
  /\ auditLogs = {}
  /\ nextId = 0
  /\ lastOp = NoOp

\* a call that has not been made yet.  err names the exception raised inside the
\* call ("" for none) and at the component that raised it; wrote and epoch are
\* history: the number of the call's setItem among all setItem calls (0 for
\* none) and the number of storage events that preceded the call; quiet is
\* history too: the call entered the Key Store when a key was persisted and no
\* other call was inside the Key Store
Idle ==
  [op |-> "none", pc |-> "idle", arg |-> <<>>, keyData |-> Null,
   key |-> <<>>, iv |-> <<>>, out |-> Pending,
   err |-> "", at |-> "", wrote |-> 0, epoch |-> 0, quiet |-> FALSE]

CipherInit ==
  /\ storage = Null
  /\ calls = [c \in Calls |-> Idle]
  /\ keysGenerated = 0
  /\ noncesDrawn = 0
  /\ issued = {}
  /\ setItemCalls = 0
  /\ storageEvents = 0
  /\ log = {}

\* the secret columns of no row
NoRow == [password |-> Null, token |-> Null, content |-> Null]

\* no form is open.  editPassword holds the secret columns of the row an edit
\* form was opened on (the editPassword / editTextFile prop); undecrypted and
\* retyped are history: the fields whose stored value decrypt failed on while the
\* form was loading, and the fields the user has typed into since it opened
NoForm ==
  [pc |-> "closed", table |-> "", edit |-> FALSE,
   password |-> <<>>, token |-> <<>>, content |-> <<>>,
   encryptedPassword |-> <<>>, encryptedToken |-> <<>>, encryptedContent |-> <<>>,
   editPassword |-> NoRow, undecrypted |-> {}, retyped |-> {}]

FormInit ==
  /\ form = NoForm
  /\ sent = {}

\* the secret fields of a credential that the details view can reveal
Fields == {"password", "token"}

\* no toggleReveal call is waiting for this decrypt call
NoReveal == [field |-> "", revealedFields |-> <<>>, decryptedValues |-> <<>>]

\* the component after mounting.  selectedPassword holds the secret columns of
\* the record whose details are open; revealedFields and decryptedValues are
\* the entries '<id>-<field>' of that record, <<>> for a missing entry; reveals
\* holds, for each decrypt call a toggleReveal is waiting for, the field and the
\* revealedFields and decryptedValues of the render whose handler made the
\* call; decrypts is history: how often toggleReveal has called decrypt for the field
ListInit ==
  list = [selectedPassword |-> NoRow,
          revealedFields |-> [f \in Fields |-> FALSE],
          decryptedValues |-> [f \in Fields |-> <<>>],
          reveals |-> [c \in Calls |-> NoReveal],
          decrypts |-> [f \in Fields |-> 0]]

\* the user has not opened the Admin Panel.  profile is the user's own profile
\* as useAuth() holds it, users the rows loadUsers has read
NoPanel ==
  [open |-> FALSE, profile |-> [exists |-> FALSE, is_admin |-> FALSE], users |-> <<>>]

PanelInit == panel = [u \in Users |-> NoPanel]

Init == CipherInit /\ FormInit /\ ListInit /\ PanelInit /\ DbInit

\* a call whose caller has taken the result
Settled == [Idle EXCEPT !.pc = "settled"]

InFlight == {c \in Calls : calls[c].pc \notin {"idle", "settled"}}
NoCallInFlight == InFlight = {}

\* a call has just settled and its caller's continuation is the next microtask
Returning == \E c \in Calls : calls[c].pc = "done"

\* call c is the next one to be made
NextCall(c) ==
  /\ ~Returning
  /\ calls[c].pc = "idle"
  /\ IF c = 1 THEN TRUE ELSE calls[c - 1].pc # "idle"
  /\ Cardinality(InFlight) < MaxInFlight

\* how the failure of a call's Key Store or crypto step settles the call:
\* encrypt has no try block, decrypt catches
Failed(op) == IF op = "decrypt" THEN DecryptFailure ELSE Thrown

\* a catch block that also logs the key it worked with
ErrorLoggedWithKey(call) ==
  [label |-> "Decryption error:", error |-> call.err, data |-> <<call.key>>]

\* the catch block of decrypt: console.error('Decryption error:', error).  The
\* entry holds the label and what the error object carries: its name, and in
\* data the strings and byte arrays of the call that it holds, which is none
\* for the exceptions of localStorage, atob, importKey and decrypt
ErrorLogged(call) ==
  [label |-> "Decryption error:", error |-> call.err, data |-> <<>>]

\* what a call that has just settled has written to the console
ConsoleError(call) ==
  IF call.op = "decrypt" /\ call.pc = "done" /\ call.err # ""
    THEN {ErrorLogged(call)}
    ELSE {}

(***************************************************************************)
(* getEncryptionKey, up to its first await (lines 4-8 and 17).              *)
(***************************************************************************)
\* the calls that are inside getEncryptionKey
InKeyStore == {c \in Calls : calls[c].pc \in {"import", "generate", "export"}}

\* a key has been persisted and no Key Store call is in flight
KeyStoreQuiet == storage # Null /\ InKeyStore = {}

\* a Key Store that never looks at the persisted key
KeyStoreEnteredAlwaysGenerates(c, op, arg) ==
  [Idle EXCEPT !.op = op, !.arg = arg, !.keyData = storage, !.epoch = storageEvents,
               !.quiet = KeyStoreQuiet, !.pc = "generate"]

KeyStoreEntered(c, op, arg) ==
  LET keyData == storage
      call == [Idle EXCEPT !.op = op, !.arg = arg, !.keyData = keyData,
                           !.epoch = storageEvents, !.quiet = KeyStoreQuiet]
  IN IF ~NoKeyData(keyData)
       THEN LET keyBuffer == atob(keyData)
            IN IF keyBuffer.ok
                 THEN [call EXCEPT !.pc = "import", !.key = keyBuffer.bytes]
                 ELSE [call EXCEPT !.pc = "done", !.out = Failed(op),
                                   !.err = "InvalidCharacterError", !.at = "keystore"]
       ELSE [call EXCEPT !.pc = "generate"]

(***************************************************************************)
(* encrypt(plaintext) and decrypt(ciphertext), up to their first await.    *)
(***************************************************************************)
\* the encrypt calls that are on their way to an envelope
Encrypting ==
  {c \in Calls : calls[c].op = "encrypt" /\ calls[c].pc \notin {"idle", "done", "settled"}}

CallEncrypt(c, plaintext) ==
  /\ NextCall(c)
  /\ IF IsEmpty(plaintext)
       THEN calls' = [calls EXCEPT ![c] =
              [Idle EXCEPT !.op = "encrypt", !.arg = plaintext, !.pc = "done", !.out = Value(<<>>)]]
       ELSE /\ Cardinality(issued) + Cardinality(Encrypting) < MaxEnvelopes
            /\ calls' = [calls EXCEPT ![c] = KeyStoreEntered(c, "encrypt", plaintext)]
  /\ UNCHANGED <<storage, keysGenerated, noncesDrawn, issued, setItemCalls, storageEvents, log, appVars>>

\* decrypt(ciphertext) is called and runs up to its first await
DecryptEntered(c, ciphertext) ==
  /\ NextCall(c)
  /\ IF IsEmpty(ciphertext)
       THEN calls' = [calls EXCEPT ![c] =
              [Idle EXCEPT !.op = "decrypt", !.arg = ciphertext, !.pc = "done", !.out = Value(<<>>)]]
       ELSE calls' = [calls EXCEPT ![c] = KeyStoreEntered(c, "decrypt", ciphertext)]
  /\ log' = log \cup ConsoleError(calls'[c])
  /\ UNCHANGED <<storage, keysGenerated, noncesDrawn, issued, setItemCalls, storageEvents>>

\* a decrypt call by a caller whose own state the call leaves alone
CallDecrypt(c, ciphertext) ==
  /\ DecryptEntered(c, ciphertext)
  /\ UNCHANGED appVars

(***************************************************************************)
(* The continuations of getEncryptionKey.                                  *)
(***************************************************************************)
\* await crypto.subtle.importKey(...) settles (lines 8-14)
ImportKeySettled(c) ==
  /\ calls[c].pc = "import"
  /\ calls' = [calls EXCEPT ![c] =
       IF ImportableKey(calls[c].key)
         THEN [@ EXCEPT !.pc = "haveKey"]
         ELSE [@ EXCEPT !.pc = "done", !.key = <<>>, !.out = Failed(calls[c].op),
                        !.err = "DataError", !.at = "keystore"]]
  /\ log' = log \cup ConsoleError(calls'[c])
  /\ UNCHANGED <<storage, keysGenerated, noncesDrawn, issued, setItemCalls, storageEvents, appVars>>

\* await crypto.subtle.generateKey(...) settles (lines 17-21)
GenerateKeySettled(c) ==
  /\ calls[c].pc = "generate"
  /\ keysGenerated' = keysGenerated + 1
  /\ calls' = [calls EXCEPT ![c] = [@ EXCEPT !.pc = "export", !.key = KeyBytes(keysGenerated + 1)]]
  /\ UNCHANGED <<storage, noncesDrawn, issued, setItemCalls, storageEvents, log, appVars>>

\* a Key Store that keeps a key another call has persisted in the meantime
ExportKeySettledFirstWins(c) ==
  /\ calls[c].pc = "export"
  /\ storage' = IF storage = Null THEN btoa(calls[c].key) ELSE storage
  /\ setItemCalls' = IF storage = Null THEN setItemCalls + 1 ELSE setItemCalls
  /\ calls' = [calls EXCEPT ![c] =
       [@ EXCEPT !.pc = "haveKey",
                 !.wrote = IF storage = Null THEN setItemCalls + 1 ELSE 0]]
  /\ UNCHANGED <<keysGenerated, noncesDrawn, issued, storageEvents, log, appVars>>

\* await crypto.subtle.exportKey settles; btoa; localStorage.setItem; return key
\* (lines 23-27)
ExportKeySettled(c) ==
  /\ calls[c].pc = "export"
  /\ storage' = btoa(calls[c].key)
  /\ setItemCalls' = setItemCalls + 1
  /\ calls' = [calls EXCEPT ![c] = [@ EXCEPT !.pc = "haveKey", !.wrote = setItemCalls + 1]]
  /\ UNCHANGED <<keysGenerated, noncesDrawn, issued, storageEvents, log, appVars>>

(***************************************************************************)
(* The continuations of encrypt and decrypt.                               *)
(***************************************************************************)
\* an encrypt that reads the key slot again once the Key Store has returned
EncryptKeyObtainedRereads(c) ==
  /\ calls[c].pc = "haveKey"
  /\ calls[c].op = "encrypt"
  /\ noncesDrawn' = noncesDrawn + 1
  /\ calls' = [calls EXCEPT ![c] = [@ EXCEPT !.pc = "cipher", !.key = ImportedKey(storage),
                                              !.iv = NonceBytes(noncesDrawn + 1)]]
  /\ UNCHANGED <<storage, keysGenerated, issued, setItemCalls, storageEvents, log, appVars>>

\* encrypt after `await getEncryptionKey()`: draw the iv, encode, call
\* crypto.subtle.encrypt (lines 34-42)
EncryptKeyObtained(c) ==
  /\ calls[c].pc = "haveKey"
  /\ calls[c].op = "encrypt"
  /\ noncesDrawn' = noncesDrawn + 1
  /\ calls' = [calls EXCEPT ![c] = [@ EXCEPT !.pc = "cipher", !.iv = NonceBytes(noncesDrawn + 1)]]
  /\ UNCHANGED <<storage, keysGenerated, issued, setItemCalls, storageEvents, log, appVars>>

\* an envelope layout with the nonce behind the ciphertext
CombinedNonceLast(key, iv, plaintext) ==
  AesGcmEncrypt(key, iv, TextEncode(plaintext)) \o iv

\* the bytes encrypt assembles (lines 36-46)
Combined(key, iv, plaintext) ==
  LET data == TextEncode(plaintext)
      ciphertext == AesGcmEncrypt(key, iv, data)
  IN iv \o ciphertext

\* String.fromCharCode(...bytes) passes one argument per byte; the engine throws
\* a RangeError when that is more than a call can pass (lines 24 and 48)
SpreadFits(bytes) == Len(bytes) <= MaxArguments

\* an encrypt that returns its argument
EnvelopePlain(key, iv, plaintext) == plaintext

\* the string encrypt returns (lines 36-48)
Envelope(key, iv, plaintext) == btoa(Combined(key, iv, plaintext))

\* await crypto.subtle.encrypt settles; combine; btoa; return (lines 44-48)
EncryptSettled(c) ==
  /\ calls[c].pc = "cipher"
  /\ calls[c].op = "encrypt"
  /\ IF SpreadFits(Combined(calls[c].key, calls[c].iv, calls[c].arg))
       THEN LET env == Envelope(calls[c].key, calls[c].iv, calls[c].arg)
            IN /\ calls' = [calls EXCEPT ![c] = [@ EXCEPT !.pc = "done", !.out = Value(env)]]
               /\ issued' = issued \cup
                    {[call |-> c, env |-> env, pt |-> calls[c].arg, key |-> calls[c].key,
                      iv |-> calls[c].iv, epoch |-> storageEvents,
                      quiet |-> calls[c].quiet]}
       ELSE /\ calls' = [calls EXCEPT ![c] =
                 [@ EXCEPT !.pc = "done", !.out = Thrown, !.err = "RangeError", !.at = "cipher"]]
            /\ issued' = issued
  /\ UNCHANGED <<storage, keysGenerated, noncesDrawn, setItemCalls, storageEvents, log, appVars>>

\* decrypt after `await getEncryptionKey()`: atob, slice, call
\* crypto.subtle.decrypt (lines 56-64)
DecryptKeyObtained(c) ==
  /\ calls[c].pc = "haveKey"
  /\ calls[c].op = "decrypt"
  /\ LET combined == atob(calls[c].arg)
     IN calls' = [calls EXCEPT ![c] =
          IF combined.ok
            THEN [@ EXCEPT !.pc = "cipher", !.iv = SliceIv(combined.bytes)]
            ELSE [@ EXCEPT !.pc = "done", !.out = DecryptFailure,
                           !.err = "InvalidCharacterError", !.at = "cipher"]]
  /\ log' = log \cup ConsoleError(calls'[c])
  /\ UNCHANGED <<storage, keysGenerated, noncesDrawn, issued, setItemCalls, storageEvents, appVars>>

\* what decrypt settles with once crypto.subtle.decrypt has settled (lines 60-71)
Decrypted(key, iv, ciphertext) ==
  LET data == SliceData(atob(ciphertext).bytes)
      plaintext == AesGcmDecrypt(key, iv, data)
  IN IF plaintext.ok THEN Value(TextDecode(plaintext.bytes)) ELSE DecryptFailure

\* the exception crypto.subtle.decrypt rejects with, "" if it resolves
DecryptError(key, iv, ciphertext) ==
  IF AesGcmDecrypt(key, iv, SliceData(atob(ciphertext).bytes)).ok THEN "" ELSE "OperationError"

DecryptSettled(c) ==
  /\ calls[c].pc = "cipher"
  /\ calls[c].op = "decrypt"
  /\ LET error == DecryptError(calls[c].key, calls[c].iv, calls[c].arg)
     IN calls' = [calls EXCEPT ![c] =
          [@ EXCEPT !.pc = "done",
                    !.out = Decrypted(calls[c].key, calls[c].iv, calls[c].arg),
                    !.err = error, !.at = IF error = "" THEN "" ELSE "cipher"]]
  /\ log' = log \cup ConsoleError(calls'[c])
  /\ UNCHANGED <<storage, keysGenerated, noncesDrawn, issued, setItemCalls, storageEvents, appVars>>

\* the caller's `await encrypt(...)` / `await decrypt(...)` resumes with the result
Settle(c) ==
  /\ calls[c].pc = "done"
  /\ calls' = [calls EXCEPT ![c] = Settled]
  /\ UNCHANGED <<storage, keysGenerated, noncesDrawn, issued, setItemCalls, storageEvents, log, appVars>>

\* one continuation inside call c runs; a settled promise's reaction runs
\* before any other task
KeyStoreProceed(c) ==
  \/ ~Returning /\ ImportKeySettled(c)
  \/ ~Returning /\ GenerateKeySettled(c)
  \/ ~Returning /\ ExportKeySettled(c)

EncryptProceed(c) ==
  \/ ~Returning /\ EncryptKeyObtained(c)
  \/ ~Returning /\ EncryptSettled(c)

DecryptProceed(c) ==
  \/ ~Returning /\ DecryptKeyObtained(c)
  \/ ~Returning /\ DecryptSettled(c)

Proceed(c) ==
  \/ KeyStoreProceed(c)
  \/ EncryptProceed(c)
  \/ DecryptProceed(c)

Continue(c) ==
  \/ Proceed(c)
  \/ Settle(c)

(***************************************************************************)
(* Inputs of decrypt.                                                      *)
(***************************************************************************)
IssuedEnvelopes == {e.env : e \in issued}

\* strings that are not envelopes: "!!!!" is not base64, " " decodes to no
\* byte, "QUJD" to 3 bytes and the last one to 11 bytes
Malformed == {<<33, 33, 33, 33>>, <<32>>, <<81, 85, 74, 68>>, btoa([i \in 1..11 |-> i])}

\* characters a hand-edit can put in place of one character of an envelope:
\* the base64 alphabet, '=', ' ' and '!'
ReplacementChars == B64Alphabet \cup {PadChar, 32, 33}

\* the copy of envelope env with its i-th character replaced by ch
Tampered(env, i, ch) == [env EXCEPT ![i] = ch]

\* values of the key slot that are no exported key: "!" is not base64,
\* the other decodes to 5 bytes
Unreadable == {<<33>>, btoa(<<1, 2, 3, 4, 5>>)}

\* byte strings that are not UTF-8: a lone continuation byte, a lead byte with
\* nothing after it, and 0xFF after 'a'
InvalidUtf8 == {<<128>>, <<195>>, <<97, 255>>}

\* bytes is well-formed UTF-8: decoding replaces nothing
ValidUtf8(bytes) == TextEncode(Utf8Decode(bytes, 1)) = bytes

\* the nonce of an envelope that was not made by encrypt
ForeignNonce == [j \in 1..IvLen |-> 0]

\* an envelope around arbitrary bytes, made with the profile's key by a program
\* other than encrypt (the key is exportable and sits in localStorage)
Forged(key, data) == btoa(ForeignNonce \o AesGcmEncrypt(key, ForeignNonce, data))

(***************************************************************************)
(* Platform primitives that are unavailable.                               *)
(***************************************************************************)
\* a call on a non-empty argument while localStorage cannot be read: getItem
\* throws inside getEncryptionKey (line 4)
CallWithoutStorage(c, op, arg) ==
  /\ NextCall(c)
  /\ ~IsEmpty(arg)
  /\ calls' = [calls EXCEPT ![c] =
       [Idle EXCEPT !.op = op, !.arg = arg, !.epoch = storageEvents, !.pc = "done",
                    !.out = Failed(op), !.err = "SecurityError", !.at = "keystore"]]
  /\ log' = log \cup ConsoleError(calls'[c])
  /\ UNCHANGED <<storage, keysGenerated, noncesDrawn, issued, setItemCalls, storageEvents, appVars>>

\* the crypto backend rejects importKey, generateKey or exportKey, or setItem
\* throws (lines 8, 17, 23, 25): getEncryptionKey rejects, nothing is written
KeyStoreFailed(c) ==
  /\ ~Returning
  /\ calls[c].pc \in {"import", "generate", "export"}
  /\ calls' = [calls EXCEPT ![c] =
       [@ EXCEPT !.pc = "done", !.key = <<>>, !.out = Failed(calls[c].op),
                 !.err = IF calls[c].pc = "export" THEN "QuotaExceededError"
                                                   ELSE "OperationError",
                 !.at = "keystore"]]
  /\ log' = log \cup ConsoleError(calls'[c])
  /\ UNCHANGED <<storage, keysGenerated, noncesDrawn, issued, setItemCalls, storageEvents, appVars>>

(***************************************************************************)
(* The environment of the profile's durable storage.                       *)
(***************************************************************************)
\* the user or the browser clears the site data
ClearStorage ==
  /\ ~Returning
  /\ storageEvents < MaxStorageEvents
  /\ storage # Null
  /\ storage' = Null
  /\ storageEvents' = storageEvents + 1
  /\ UNCHANGED <<calls, keysGenerated, noncesDrawn, issued, setItemCalls, log, appVars>>

\* something outside this module overwrites the key slot
StorageReplaced(v) ==
  /\ ~Returning
  /\ storageEvents < MaxStorageEvents
  /\ storage # v
  /\ storage' = v
  /\ storageEvents' = storageEvents + 1
  /\ UNCHANGED <<calls, keysGenerated, noncesDrawn, issued, setItemCalls, log, appVars>>

(***************************************************************************)
(* The forms that write secret fields: PasswordForm.handleSubmit and       *)
(* TextFileForm.handleSubmit.                                              *)
(***************************************************************************)
\* what the user has typed into the secret fields
Passwords == {<<>>, <<97>>}
Tokens == {<<>>, <<98>>}
Contents == {<<>>, <<97>>}

\* `x || null`
OrNull(x) == IF x = <<>> THEN Null ELSE x

\* a form that hands over what the user typed
PasswordDataPlain(f) ==
  [table |-> f.table, op |-> IF f.edit THEN "update" ELSE "insert",
   password |-> OrNull(f.password), token |-> OrNull(f.token), content |-> Null]

\* passwordData: the secret fields of the row given to update or insert
PasswordData(f) ==
  [table |-> f.table, op |-> IF f.edit THEN "update" ELSE "insert",
   password |-> OrNull(f.encryptedPassword), token |-> OrNull(f.encryptedToken),
   content |-> Null]

\* textFileData: the secret field of the row given to update or insert
TextFileData(f) ==
  [table |-> f.table, op |-> IF f.edit THEN "update" ELSE "insert",
   password |-> Null, token |-> Null, content |-> f.encryptedContent]

\* the user submits the password form (create, or edit of an existing row)
SubmitPasswordForm(edit, password, token) ==
  /\ form.pc = "closed"
  /\ NoCallInFlight
  /\ form' = [NoForm EXCEPT !.pc = "password", !.table = "shared_passwords", !.edit = edit,
                            !.password = password, !.token = token]
  /\ UNCHANGED <<cipherVars, sent, listVars, dbVars>>

\* the user submits the text file form
SubmitTextFileForm(edit, content) ==
  /\ form.pc = "closed"
  /\ NoCallInFlight
  /\ form' = [NoForm EXCEPT !.pc = "content", !.table = "shared_text_files", !.edit = edit,
                            !.content = content]
  /\ UNCHANGED <<cipherVars, sent, listVars, dbVars>>

\* the secret field handleSubmit is about to encrypt
FieldToEncrypt ==
  IF form.pc = "password" THEN form.password
  ELSE IF form.pc = "token" THEN form.token
  ELSE form.content

\* handleSubmit with the result r of encrypting the field it is at
FieldEncrypted(r) ==
  IF form.pc = "password" THEN [form EXCEPT !.encryptedPassword = r, !.pc = "token"]
  ELSE IF form.pc = "token" THEN [form EXCEPT !.encryptedToken = r, !.pc = "send"]
  ELSE [form EXCEPT !.encryptedContent = r, !.pc = "send"]

\* `formData.password ? await encrypt(formData.password) : ''` on an empty field
FieldSkipped ==
  /\ form.pc \in {"password", "token"}
  /\ NoCallInFlight
  /\ FieldToEncrypt = <<>>
  /\ form' = FieldEncrypted(<<>>)
  /\ UNCHANGED <<cipherVars, sent, listVars, dbVars>>

\* handleSubmit calls encrypt on the field
FieldEncryptCalled ==
  /\ form.pc \in {"password", "token", "content"}
  /\ NoCallInFlight
  /\ form.pc = "content" \/ FieldToEncrypt # <<>>
  /\ \E c \in Calls : NextCall(c) /\ CallEncrypt(c, FieldToEncrypt)

\* `await encrypt(...)` resumes handleSubmit: with the envelope, or in the catch
\* block, which sends nothing
FormResumed(c) ==
  /\ form.pc \in {"password", "token", "content"}
  /\ calls[c].pc = "done"
  /\ calls' = [calls EXCEPT ![c] = Settled]
  /\ form' = IF calls[c].out.kind = "value" THEN FieldEncrypted(calls[c].out.val) ELSE NoForm
  /\ UNCHANGED <<storage, keysGenerated, noncesDrawn, issued, setItemCalls, storageEvents, log,
                 sent, listVars, dbVars>>

\* supabase.from(table).update(...).eq('id', editPassword.id) or .insert(...) is
\* given the row, which replaces the secret columns of the row the form was
\* opened on; formData, editPassword, undecrypted and retyped are history: what
\* the form held when it was submitted
FormSent ==
  /\ form.pc = "send"
  /\ sent' = sent \cup
       {[row |-> IF form.table = "shared_passwords" THEN PasswordData(form)
                                                   ELSE TextFileData(form),
         formData |-> [password |-> form.password, token |-> form.token,
                       content |-> form.content],
         editPassword |-> form.editPassword,
         undecrypted |-> form.undecrypted, retyped |-> form.retyped]}
  /\ form' = NoForm
  /\ UNCHANGED <<cipherVars, listVars, dbVars>>

(***************************************************************************)
(* The edit forms: PasswordForm.loadPasswordData and                       *)
(* TextFileForm.loadTextFileData fill the form from the stored row.        *)
(***************************************************************************)
\* the secret columns of a row handed to the database
Columns(row) == [password |-> row.password, token |-> row.token, content |-> row.content]

\* a credential whose password column holds the empty string and whose token is
\* null, written by a client other than these forms
OtherRows == {[password |-> <<>>, token |-> Null, content |-> Null]}

\* the rows of a table the list can hand to the edit form: written by the forms
\* before, or by another client
StoredRows(table) ==
  {Columns(r.row) : r \in {x \in sent : x.row.table = table}}
    \cup (IF table = "shared_passwords" THEN OtherRows ELSE {})

\* the user clicks Edit on a credential: useEffect calls loadPasswordData
OpenPasswordEdit(row) ==
  /\ form.pc = "closed"
  /\ NoCallInFlight
  /\ row \in StoredRows("shared_passwords")
  /\ form' = [NoForm EXCEPT !.pc = "loadPassword", !.table = "shared_passwords",
                            !.edit = TRUE, !.editPassword = row]
  /\ UNCHANGED <<cipherVars, sent, listVars, dbVars>>

\* the user clicks Edit on a text file: useEffect calls loadTextFileData
OpenTextFileEdit(row) ==
  /\ form.pc = "closed"
  /\ NoCallInFlight
  /\ row \in StoredRows("shared_text_files")
  /\ form' = [NoForm EXCEPT !.pc = "loadContent", !.table = "shared_text_files",
                            !.edit = TRUE, !.editPassword = row]
  /\ UNCHANGED <<cipherVars, sent, listVars, dbVars>>

Loading == form.pc \in {"loadPassword", "loadToken", "loadContent"}

\* the stored value the load is about to decrypt
FieldToDecrypt ==
  IF form.pc = "loadPassword" THEN form.editPassword.password
  ELSE IF form.pc = "loadToken" THEN form.editPassword.token
  ELSE form.editPassword.content

\* a load that decrypts whatever the column holds
UnsetNever(v) == FALSE

\* `editPassword.password ?` fails: the column is null or the empty string
Unset(v) == v = Null \/ v = <<>>

\* the load with the text r for the field it is at; failed tells that decrypt
\* caught an error on the way.  setFormData and setIsOpen(true) follow the last field
FieldDecrypted(r, failed) ==
  IF form.pc = "loadPassword"
    THEN [form EXCEPT !.password = r, !.pc = "loadToken",
                      !.undecrypted = IF failed THEN @ \cup {"password"} ELSE @]
  ELSE IF form.pc = "loadToken"
    THEN [form EXCEPT !.token = r, !.pc = "open",
                      !.undecrypted = IF failed THEN @ \cup {"token"} ELSE @]
  ELSE [form EXCEPT !.content = r, !.pc = "open",
                    !.undecrypted = IF failed THEN @ \cup {"content"} ELSE @]

\* `editPassword.password ? await decrypt(editPassword.password) : ''` on an unset column
LoadSkipped ==
  /\ form.pc \in {"loadPassword", "loadToken"}
  /\ NoCallInFlight
  /\ Unset(FieldToDecrypt)
  /\ form' = FieldDecrypted(<<>>, FALSE)
  /\ UNCHANGED <<cipherVars, sent, listVars, dbVars>>

\* the load calls decrypt on the stored value
LoadDecryptCalled ==
  /\ Loading
  /\ NoCallInFlight
  /\ form.pc = "loadContent" \/ ~Unset(FieldToDecrypt)
  /\ \E c \in Calls : NextCall(c) /\ CallDecrypt(c, FieldToDecrypt)

\* `await decrypt(...)` resumes the load: with the text decrypt returned, or in
\* the catch block, which leaves the form closed
LoadResumed(c) ==
  /\ Loading
  /\ calls[c].pc = "done"
  /\ calls' = [calls EXCEPT ![c] = Settled]
  /\ form' = IF calls[c].out.kind = "value"
               THEN FieldDecrypted(calls[c].out.val, calls[c].err # "")
               ELSE NoForm
  /\ UNCHANGED <<storage, keysGenerated, noncesDrawn, issued, setItemCalls, storageEvents, log,
                 sent, listVars, dbVars>>

\* the secret fields of the form that is open
SecretFields ==
  IF form.table = "shared_passwords" THEN {"password", "token"} ELSE {"content"}

\* the user replaces the text of a secret field of the open form
Retyped(field, text) ==
  /\ form.pc = "open"
  /\ field \in SecretFields
  /\ form[field] # text
  /\ form' = [form EXCEPT ![field] = text, !.retyped = @ \cup {field}]
  /\ UNCHANGED <<cipherVars, sent, listVars, dbVars>>

\* the user submits the open edit form: handleSubmit starts on formData
SubmitEditForm ==
  /\ form.pc = "open"
  /\ form' = [form EXCEPT !.pc = IF form.table = "shared_passwords" THEN "password"
                                                                    ELSE "content"]
  /\ UNCHANGED <<cipherVars, sent, listVars, dbVars>>

(***************************************************************************)
(* PasswordList: the details view of one credential and its reveal buttons *)
(* (loadPasswords, setSelectedPassword, toggleReveal).                     *)
(***************************************************************************)
\* an envelope made in another user's browser, under the key of that browser
OtherBrowserEnvelope == Envelope(KeyBytes(0), ForeignNonce, <<98>>)

\* the envelopes the record's columns can hold when loadPasswords reads it
StoredEnvelopes == IssuedEnvelopes \cup {OtherBrowserEnvelope}

\* loadPasswords has read the record and the user opens its details: the
\* details view holds the columns as stored now
PasswordSelected(password, token) ==
  /\ password \in StoredEnvelopes
  /\ token \in StoredEnvelopes \cup {Null}
  /\ [password |-> password, token |-> token, content |-> Null] # list.selectedPassword
  /\ list' = [list EXCEPT !.selectedPassword =
                 [password |-> password, token |-> token, content |-> Null]]
  /\ UNCHANGED <<cipherVars, formVars, panel, dbVars>>

\* the button of a field is rendered: `selectedPassword.password &&`
Revealable(field) == list.selectedPassword[field] \notin {Null, <<>>}

\* `decryptedValues[key]` is truthy in the render the handler belongs to
Cached(field) == list.decryptedValues[field] # <<>>

\* toggleReveal(field, selectedPassword[field]) on a field that is revealed, or
\* hidden with its text in decryptedValues: the handler only sets revealedFields
RevealToggled(field) ==
  /\ Revealable(field)
  /\ list.revealedFields[field] \/ Cached(field)
  /\ list' = [list EXCEPT !.revealedFields[field] = ~list.revealedFields[field]]
  /\ UNCHANGED <<cipherVars, formVars, panel, dbVars>>

\* toggleReveal on a hidden field with no text in decryptedValues: the handler
\* calls decrypt and waits, holding the state of its render
RevealDecryptCalled(field) ==
  /\ Revealable(field)
  /\ ~list.revealedFields[field]
  /\ ~Cached(field)
  /\ \E c \in Calls :
       /\ DecryptEntered(c, list.selectedPassword[field])
       /\ list' = [list EXCEPT
            !.reveals[c] = [field |-> field, revealedFields |-> list.revealedFields,
                            decryptedValues |-> list.decryptedValues],
            !.decrypts[field] = @ + 1]
  /\ UNCHANGED <<formVars, panel, dbVars>>

\* `await decrypt(encryptedValue)` resumes toggleReveal:
\* setDecryptedValues({ ...decryptedValues, [key]: decrypted }) and
\* setRevealedFields({ ...revealedFields, [key]: true }), both spreading the
\* state of the render the handler belongs to
RevealResumed(c) ==
  /\ calls[c].pc = "done"
  /\ list.reveals[c] # NoReveal
  /\ calls' = [calls EXCEPT ![c] = Settled]
  /\ LET reveal == list.reveals[c]
     IN list' = [list EXCEPT
          !.decryptedValues = [reveal.decryptedValues EXCEPT ![reveal.field] = calls[c].out.val],
          !.revealedFields = [reveal.revealedFields EXCEPT ![reveal.field] = TRUE],
          !.reveals[c] = NoReveal]
  /\ UNCHANGED <<storage, keysGenerated, noncesDrawn, issued, setItemCalls, storageEvents, log,
                 formVars, panel, dbVars>>

(***************************************************************************)
(* The database: tables, constraints and row level security policies, and  *)
(* the statements the application sends as the signed-in user uid.         *)
(***************************************************************************)
\* the envelopes stored in secret columns, as opaque texts "A" and "B"
StoredSecrets == {<<65>>, <<66>>}

\* EXISTS (SELECT 1 FROM user_profiles WHERE id = auth.uid() AND is_admin = true)
IsAdmin(uid) == profiles[uid].exists /\ profiles[uid].is_admin

\* `auth.uid() = created_by`, which is not true when created_by IS NULL
IsCreator(uid, row) == row.created_by # NullId /\ row.created_by = uid

\* a policy that lets every authenticated user through
PolicyForAll(uid, row) == TRUE

\* "Authenticated users can read shared passwords": USING (true)
SelectPasswordPolicy(uid, row) == TRUE

\* "Authenticated users can create shared passwords"
InsertPasswordPolicy(uid, row) == uid = row.created_by

\* "Creator or admin can update shared passwords": USING and WITH CHECK
UpdatePasswordPolicy(uid, row) == IsCreator(uid, row) \/ IsAdmin(uid)

\* "Users can delete own passwords, admins can delete any"
DeletePasswordPolicy(uid, row) == IsCreator(uid, row) \/ IsAdmin(uid)

\* the policies of shared_text_files
InsertTextFilePolicy(uid, row) == uid = row.created_by
UpdateTextFilePolicy(uid, row) == IsCreator(uid, row) \/ IsAdmin(uid)
DeleteTextFilePolicy(uid, row) == IsCreator(uid, row) \/ IsAdmin(uid)

\* "Users can insert own audit logs"
InsertAuditPolicy(uid, row) == uid = row.user_id

\* CONSTRAINT valid_action_type
ValidActionType(t) == t \in {"login", "password_access", "password_reveal"}

\* resource_id uuid REFERENCES shared_passwords(id)
ResourceExists(id) == id = NullId \/ \E p \in passwords : p.id = id

\* the rows a SELECT by uid returns
SelectPasswords(uid) == {p \in passwords : SelectPasswordPolicy(uid, p)}

\* audit_logs after supabase.from('audit_logs').insert({user_id, action_type,
\* resource_id}) by uid: the row is stored when the policy, the check constraint
\* and the foreign key let it in; the caller does not look at the error
AuditInserted(uid, user_id, action_type, resource_id) ==
  LET row == [id |-> nextId + 1, user_id |-> user_id, action_type |-> action_type,
              resource_id |-> resource_id]
  IN IF InsertAuditPolicy(uid, row) /\ ValidActionType(action_type) /\ ResourceExists(resource_id)
       THEN auditLogs \cup {row}
       ELSE auditLogs

\* ON DELETE SET NULL of audit_logs.resource_id
ResourceSetNull(logs, id) ==
  {IF a.resource_id = id THEN [a EXCEPT !.resource_id = NullId] ELSE a : a \in logs}

\* ON DELETE SET NULL of created_by
CreatedBySetNull(rows, uid) ==
  {IF r.created_by = uid THEN [r EXCEPT !.created_by = NullId] ELSE r : r \in rows}

\* the user is the creator of the row or has a profile with is_admin = true
CreatorOrAdmin(uid, row) ==
  (row.created_by = uid) \/ (profiles[uid].exists /\ profiles[uid].is_admin)

Statement(table, op, uid, id, permitted, changed) ==
  [table |-> table, op |-> op, uid |-> uid, id |-> id,
   permitted |-> permitted, changed |-> changed]

\* PasswordForm.handleSubmit, create: insert with created_by: user.id
CreatePassword(uid, secret) ==
  /\ nextId < MaxIds
  /\ LET row == [id |-> nextId + 1, created_by |-> uid, password |-> secret]
         ok == InsertPasswordPolicy(uid, row) /\ profiles[uid].exists
     IN /\ passwords' = IF ok THEN passwords \cup {row} ELSE passwords
        /\ nextId' = IF ok THEN nextId + 1 ELSE nextId
        /\ lastOp' = NoOp
  /\ UNCHANGED <<cipherVars, formVars, listVars, profiles, textFiles, auditLogs>>

\* PasswordForm.handleSubmit, edit: update(...).eq('id', id), then the
\* 'password_access' audit row
UpdatePassword(uid, row, secret) ==
  /\ row \in passwords
  /\ nextId < MaxIds
  /\ passwords' = IF UpdatePasswordPolicy(uid, row)
                    THEN (passwords \ {row}) \cup {[row EXCEPT !.password = secret]}
                    ELSE passwords
  /\ auditLogs' = AuditInserted(uid, uid, "password_access", row.id)
  /\ nextId' = IF auditLogs' # auditLogs THEN nextId + 1 ELSE nextId
  /\ lastOp' = Statement("shared_passwords", "update", uid, row.id,
                         CreatorOrAdmin(uid, row), passwords' # passwords)
  /\ UNCHANGED <<cipherVars, formVars, listVars, profiles, textFiles>>

\* PasswordList.deletePassword: delete().eq('id', id)
DeletePassword(uid, row) ==
  /\ row \in passwords
  /\ IF DeletePasswordPolicy(uid, row)
       THEN /\ passwords' = passwords \ {row}
            /\ auditLogs' = ResourceSetNull(auditLogs, row.id)
       ELSE UNCHANGED <<passwords, auditLogs>>
  /\ lastOp' = Statement("shared_passwords", "delete", uid, row.id,
                         CreatorOrAdmin(uid, row), passwords' # passwords)
  /\ UNCHANGED <<cipherVars, formVars, listVars, profiles, textFiles, nextId>>

\* TextFileForm.handleSubmit, create
CreateTextFile(uid, content) ==
  /\ nextId < MaxIds
  /\ LET row == [id |-> nextId + 1, created_by |-> uid, content |-> content]
         ok == InsertTextFilePolicy(uid, row) /\ profiles[uid].exists
     IN /\ textFiles' = IF ok THEN textFiles \cup {row} ELSE textFiles
        /\ nextId' = IF ok THEN nextId + 1 ELSE nextId
        /\ lastOp' = NoOp
  /\ UNCHANGED <<cipherVars, formVars, listVars, profiles, passwords, auditLogs>>

\* TextFileForm.handleSubmit, edit: update, then the 'text_file_access' audit row
UpdateTextFile(uid, row, content) ==
  /\ row \in textFiles
  /\ nextId < MaxIds
  /\ textFiles' = IF UpdateTextFilePolicy(uid, row)
                    THEN (textFiles \ {row}) \cup {[row EXCEPT !.content = content]}
                    ELSE textFiles
  /\ auditLogs' = AuditInserted(uid, uid, "text_file_access", row.id)
  /\ nextId' = IF auditLogs' # auditLogs THEN nextId + 1 ELSE nextId
  /\ lastOp' = Statement("shared_text_files", "update", uid, row.id,
                         CreatorOrAdmin(uid, row), textFiles' # textFiles)
  /\ UNCHANGED <<cipherVars, formVars, listVars, profiles, passwords>>

\* TextFileList.viewTextFile: decrypt the content, then the 'text_file_access'
\* audit row
ViewTextFile(uid, row) ==
  /\ row \in textFiles
  /\ nextId < MaxIds
  /\ auditLogs' = AuditInserted(uid, uid, "text_file_access", row.id)
  /\ nextId' = IF auditLogs' # auditLogs THEN nextId + 1 ELSE nextId
  /\ lastOp' = Statement("shared_text_files", "view", uid, row.id, TRUE, FALSE)
  /\ UNCHANGED <<cipherVars, formVars, listVars, profiles, passwords, textFiles>>

\* TextFileList.deleteTextFile
DeleteTextFile(uid, row) ==
  /\ row \in textFiles
  /\ textFiles' = IF DeleteTextFilePolicy(uid, row) THEN textFiles \ {row} ELSE textFiles
  /\ lastOp' = Statement("shared_text_files", "delete", uid, row.id,
                         CreatorOrAdmin(uid, row), textFiles' # textFiles)
  /\ UNCHANGED <<cipherVars, formVars, listVars, profiles, passwords, auditLogs, nextId>>

\* AdminPanel.toggleAdmin: update({ is_admin: !currentStatus }).eq('id', userId);
\* "Admins can update user profiles" is evaluated on the statement's snapshot
ToggleAdmin(uid, userId, currentStatus) ==
  /\ profiles[userId].exists
  /\ profiles' = IF IsAdmin(uid)
                   THEN [profiles EXCEPT ![userId].is_admin = ~currentStatus]
                   ELSE profiles
  /\ lastOp' = NoOp
  /\ UNCHANGED <<cipherVars, formVars, listVars, passwords, textFiles, auditLogs, nextId>>

\* AdminPanel.deleteUser: delete().eq('id', userId) on user_profiles; the
\* created_by columns that reference the profile are set to NULL
DeleteUser(uid, userId) ==
  /\ profiles[userId].exists
  /\ IF IsAdmin(uid)
       THEN /\ profiles' = [profiles EXCEPT ![userId] = [exists |-> FALSE, is_admin |-> FALSE]]
            /\ passwords' = CreatedBySetNull(passwords, userId)
            /\ textFiles' = CreatedBySetNull(textFiles, userId)
       ELSE UNCHANGED <<profiles, passwords, textFiles>>
  /\ lastOp' = NoOp
  /\ UNCHANGED <<cipherVars, formVars, listVars, auditLogs, nextId>>

(***************************************************************************)
(* AdminPanel: the list of accounts with its Make Admin / Remove Admin and *)
(* delete buttons.                                                         *)
(***************************************************************************)
\* a panel that leaves the buttons of the user's own row enabled
OwnRowNever(uid, userId) == FALSE

\* `disabled={user.id === profile.id}`: the row is the acting user's own
OwnRow(uid, userId) == userId = uid

\* the panel of uid shows the row of userId with its buttons enabled: the panel
\* is rendered only when `profile?.is_admin`
ButtonsEnabled(uid, userId) ==
  /\ panel[uid].open
  /\ panel[uid].profile.is_admin
  /\ panel[uid].users[userId].exists
  /\ ~OwnRow(uid, userId)

\* useAuth() reads the user's own profile, at sign-in or on a reload of the page
ProfileLoaded(uid) ==
  /\ panel' = [panel EXCEPT ![uid].profile = profiles[uid]]
  /\ panel' # panel
  /\ UNCHANGED <<cipherVars, formVars, list, dbVars>>

\* Dashboard: signOut leaves the dashboard, and the panel with it
SignedOut(uid) ==
  /\ panel[uid] # NoPanel
  /\ panel' = [panel EXCEPT ![uid] = NoPanel]
  /\ UNCHANGED <<cipherVars, formVars, list, dbVars>>

\* Dashboard: setActiveTab('admin') from the tab shown when `profile?.is_admin`
\* mounts the panel, and loadUsers reads the rows ("Authenticated users can
\* read user profiles")
PanelOpened(uid) ==
  /\ ~panel[uid].open
  /\ panel[uid].profile.is_admin
  /\ panel' = [panel EXCEPT ![uid].open = TRUE, ![uid].users = profiles]
  /\ UNCHANGED <<cipherVars, formVars, list, dbVars>>

\* Dashboard: another tab unmounts the panel
PanelClosed(uid) ==
  /\ panel[uid].open
  /\ panel' = [panel EXCEPT ![uid].open = FALSE, ![uid].users = <<>>]
  /\ UNCHANGED <<cipherVars, formVars, list, dbVars>>

\* toggleAdmin(user.id, user.is_admin) from the button of a row: the update, as
\* "Admins can update user profiles" lets it through, then loadUsers
ToggleAdminClicked(uid, userId) ==
  /\ ButtonsEnabled(uid, userId)
  /\ profiles' = IF IsAdmin(uid) /\ profiles[userId].exists
                   THEN [profiles EXCEPT ![userId].is_admin = ~panel[uid].users[userId].is_admin]
                   ELSE profiles
  /\ panel' = [panel EXCEPT ![uid].users = profiles']
  /\ lastOp' = NoOp
  /\ UNCHANGED <<cipherVars, formVars, list, passwords, textFiles, auditLogs, nextId>>

\* deleteUser(user.id) from the button of a row, confirmed: the delete, as
\* "Admins can delete user profiles" lets it through, then loadUsers
DeleteUserClicked(uid, userId) ==
  /\ ButtonsEnabled(uid, userId)
  /\ IF IsAdmin(uid) /\ profiles[userId].exists
       THEN /\ profiles' = [profiles EXCEPT ![userId] = [exists |-> FALSE, is_admin |-> FALSE]]
            /\ passwords' = CreatedBySetNull(passwords, userId)
            /\ textFiles' = CreatedBySetNull(textFiles, userId)
       ELSE UNCHANGED <<profiles, passwords, textFiles>>
  /\ panel' = [panel EXCEPT ![uid].users = profiles']
  /\ lastOp' = NoOp
  /\ UNCHANGED <<cipherVars, formVars, list, auditLogs, nextId>>

(***************************************************************************)
(* Specifications.                                                         *)
(***************************************************************************)
EncryptCalled == \E c \in Calls : NextCall(c) /\ \E p \in Plaintexts : CallEncrypt(c, p)
ShortEncryptCalled ==
  \E c \in Calls : NextCall(c) /\ \E p \in ShortPlaintexts : CallEncrypt(c, p)
DecryptCalled ==
  \E c \in Calls : NextCall(c) /\ \E x \in {<<>>} \cup IssuedEnvelopes : CallDecrypt(c, x)
MalformedDecryptCalled ==
  \E c \in Calls : NextCall(c) /\ \E x \in Malformed : CallDecrypt(c, x)
Continued == \E c \in Calls : Continue(c)

\* any interleaving of up to MaxInFlight calls on one profile, storage left
\* alone; the plaintexts are "" and "a"
Next ==
  \/ ShortEncryptCalled
  \/ DecryptCalled
  \/ Continued

Spec == Init /\ [][Next]_vars

\* calls made one after another: a call is made when no other is in flight
SeqEncryptCalled == NoCallInFlight /\ EncryptCalled
SeqDecryptCalled == NoCallInFlight /\ DecryptCalled

SeqNext ==
  \/ SeqEncryptCalled
  \/ SeqDecryptCalled
  \/ Continued

SeqSpec == Init /\ [][SeqNext]_vars

\* the scenario of one envelope: the first call is an encrypt, decrypt calls
\* follow one after another, the last of them on a hand-edited copy of the envelope
FirstEncryptCalled == NextCall(1) /\ \E p \in Plaintexts : CallEncrypt(1, p)
TamperedDecryptCalled ==
  /\ NoCallInFlight
  /\ NextCall(MaxCalls)
  /\ \E e \in issued : \E i \in 1..Len(e.env) : \E ch \in ReplacementChars \ {e.env[i]} :
       CallDecrypt(MaxCalls, Tampered(e.env, i, ch))

TamperNext ==
  \/ FirstEncryptCalled
  \/ SeqDecryptCalled
  \/ TamperedDecryptCalled
  \/ Continued

TamperSpec == Init /\ [][TamperNext]_vars

\* calls made one after another, decrypt also given strings that are no
\* envelopes, while the storage is cleared or overwritten from outside
EnvNext ==
  \/ NoCallInFlight /\ ShortEncryptCalled
  \/ SeqDecryptCalled
  \/ NoCallInFlight /\ MalformedDecryptCalled
  \/ Continued
  \/ ClearStorage
  \/ \E v \in Unreadable : StorageReplaced(v)

EnvSpec == Init /\ [][EnvNext]_vars

\* calls made one after another while platform primitives fail, decrypt also
\* given envelopes that were made with the profile's key outside encrypt
EncryptCalledWithoutStorage ==
  \E c \in Calls : NextCall(c) /\ CallWithoutStorage(c, "encrypt", <<97>>)
DecryptCalledWithoutStorage ==
  \E c \in Calls : NextCall(c) /\ \E x \in IssuedEnvelopes : CallWithoutStorage(c, "decrypt", x)
ForgedDecryptCalled ==
  /\ ImportedKey(storage) # <<>>
  /\ \E c \in Calls : NextCall(c) /\
       \E d \in InvalidUtf8 : CallDecrypt(c, Forged(ImportedKey(storage), d))

FaultNext ==
  \/ NoCallInFlight /\ ShortEncryptCalled
  \/ SeqDecryptCalled
  \/ NoCallInFlight /\ ForgedDecryptCalled
  \/ NoCallInFlight /\ EncryptCalledWithoutStorage
  \/ NoCallInFlight /\ DecryptCalledWithoutStorage
  \/ Continued
  \/ \E c \in Calls : KeyStoreFailed(c)

FaultSpec == Init /\ [][FaultNext]_vars

\* calls made one after another, the plaintexts short and long
LongEncryptCalled ==
  \E c \in Calls : NextCall(c) /\ \E p \in LongPlaintexts : CallEncrypt(c, p)

LongNext ==
  \/ NoCallInFlight /\ LongEncryptCalled
  \/ SeqDecryptCalled
  \/ Continued

LongSpec == Init /\ [][LongNext]_vars

\* the forms being submitted one after another, on a platform that may fail
FormNext ==
  \/ \E edit \in BOOLEAN : \E p \in Passwords : \E t \in Tokens : SubmitPasswordForm(edit, p, t)
  \/ \E edit \in BOOLEAN : \E x \in Contents : SubmitTextFileForm(edit, x)
  \/ FieldSkipped
  \/ FieldEncryptCalled
  \/ \E c \in Calls : KeyStoreProceed(c)
  \/ \E c \in Calls : EncryptProceed(c)
  \/ \E c \in Calls : KeyStoreFailed(c)
  \/ \E c \in Calls : FormResumed(c)
  \/ FormSent

FormSpec == Init /\ [][FormNext]_vars

\* records created with the forms and edited again, while the browser's site
\* data may be cleared
\* another form can be opened
MoreForms == Cardinality(sent) < MaxForms

EditNext ==
  \/ MoreForms /\ \E p \in Passwords : \E t \in Tokens : SubmitPasswordForm(FALSE, p, t)
  \/ MoreForms /\ \E x \in Contents : SubmitTextFileForm(FALSE, x)
  \/ MoreForms /\ \E row \in StoredRows("shared_passwords") : OpenPasswordEdit(row)
  \/ MoreForms /\ \E row \in StoredRows("shared_text_files") : OpenTextFileEdit(row)
  \/ LoadSkipped
  \/ LoadDecryptCalled
  \/ \E c \in Calls : LoadResumed(c)
  \/ \E text \in Passwords : Retyped("password", text)
  \/ \E text \in Tokens : Retyped("token", text)
  \/ \E text \in Contents : Retyped("content", text)
  \/ SubmitEditForm
  \/ FieldSkipped
  \/ FieldEncryptCalled
  \/ \E c \in Calls : Proceed(c)
  \/ \E c \in Calls : FormResumed(c)
  \/ FormSent
  \/ form.pc = "closed" /\ NoCallInFlight /\ ClearStorage

EditSpec == Init /\ [][EditNext]_vars

\* the details view of a credential whose secrets are saved from this browser
\* and from another one, reloaded and revealed by the user at any moment
RevealNext ==
  \/ NoCallInFlight /\ ShortEncryptCalled
  \/ \E p \in StoredEnvelopes : \E t \in StoredEnvelopes \cup {Null} : PasswordSelected(p, t)
  \/ \E field \in Fields : RevealToggled(field)
  \/ \E field \in Fields : RevealDecryptCalled(field)
  \/ \E c \in Calls : Proceed(c)
  \/ \E c \in Calls : list.reveals[c] = NoReveal /\ Settle(c)
  \/ \E c \in Calls : RevealResumed(c)

RevealSpec == Init /\ [][RevealNext]_vars

\* the users working with their Admin Panels, one operation at a time
AdminPanelNext ==
  \/ \E uid \in Users : ProfileLoaded(uid)
  \/ \E uid \in Users : PanelOpened(uid)
  \/ \E uid \in Users : PanelClosed(uid)
  \/ \E uid \in Users : SignedOut(uid)
  \/ \E uid, userId \in Users : ToggleAdminClicked(uid, userId)
  \/ \E uid, userId \in Users : DeleteUserClicked(uid, userId)

AdminPanelSpec == Init /\ [][AdminPanelNext]_vars

\* the signed-in users working on credentials and accounts, one statement at
\* a time
PasswordDbNext ==
  \/ \E uid \in Users : \E x \in StoredSecrets : CreatePassword(uid, x)
  \/ \E uid \in Users : \E row \in passwords : \E x \in StoredSecrets :
       UpdatePassword(uid, row, x)
  \/ \E uid \in Users : \E row \in passwords : DeletePassword(uid, row)
  \/ \E uid, userId \in Users : \E currentStatus \in BOOLEAN :
       ToggleAdmin(uid, userId, currentStatus)
  \/ \E uid, userId \in Users : DeleteUser(uid, userId)

PasswordDbSpec == Init /\ [][PasswordDbNext]_vars

\* the signed-in users working on text files and accounts
TextFileDbNext ==
  \/ \E uid \in Users : \E x \in StoredSecrets : CreateTextFile(uid, x)
  \/ \E uid \in Users : \E row \in textFiles : \E x \in StoredSecrets :
       UpdateTextFile(uid, row, x)
  \/ \E uid \in Users : \E row \in textFiles : ViewTextFile(uid, row)
  \/ \E uid \in Users : \E row \in textFiles : DeleteTextFile(uid, row)
  \/ \E uid, userId \in Users : \E currentStatus \in BOOLEAN :
       ToggleAdmin(uid, userId, currentStatus)
  \/ \E uid, userId \in Users : DeleteUser(uid, userId)

TextFileDbSpec == Init /\ [][TextFileDbNext]_vars

(***************************************************************************)
(* Properties.                                                             *)
(***************************************************************************)
\* the decrypt calls that are returning
ReturningDecrypts == {c \in Calls : calls[c].op = "decrypt" /\ calls[c].pc = "done"}

\* x is env with exactly one character replaced
OneCharEdit(x, env) ==
  /\ Len(x) = Len(env)
  /\ Cardinality({i \in 1..Len(env) : x[i] # env[i]}) = 1

\* C1: with calls made one after another and storage left alone, decrypt of an
\* envelope that encrypt returned for plaintext P returns exactly P.
C1_RoundTrip ==
  \A c \in ReturningDecrypts : \A e \in issued :
    e.env = calls[c].arg => calls[c].out = Value(e.pt)

\* C2: under any interleaving of calls, storage left alone, every envelope
\* encrypt returned for P later decrypts to P.
C2_RoundTripUnderInterleaving ==
  \A c \in ReturningDecrypts : \A e \in issued :
    e.env = calls[c].arg => (calls[c].out.kind = "value" /\ calls[c].out.val = e.pt)

\* C3: decrypt of an envelope made under a key other than the one persisted when
\* decrypt reads the key slot returns the sentinel: not the plaintext, not an error.
C3_ForeignKeySentinel ==
  \A c \in ReturningDecrypts : \A e \in issued :
    (/\ e.env = calls[c].arg
     /\ ImportedKey(calls[c].keyData) # <<>>
     /\ ImportedKey(calls[c].keyData) # e.key)
    => (calls[c].out = Value(Sentinel) /\ calls[c].out # Value(e.pt))

C3_Witness ==
  \E c \in ReturningDecrypts : \E e \in issued :
    /\ e.env = calls[c].arg
    /\ ImportedKey(calls[c].keyData) # <<>>
    /\ ImportedKey(calls[c].keyData) # e.key
    /\ calls[c].out = Value(Sentinel)

\* C4 as claimed: decrypt of a copy of a valid envelope with any one character
\* replaced by any other returns the sentinel.
C4_EveryEditSentinel ==
  \A c \in ReturningDecrypts : \A e \in issued :
    OneCharEdit(calls[c].arg, e.env) => calls[c].out = Value(Sentinel)

\* C4 amended: decrypt of a copy of a valid envelope with one character replaced
\* returns the sentinel whenever the copy does not base64-decode to the bytes of
\* the envelope; a copy that decodes to the same bytes (only the unused low bits
\* of the last character before the padding differ, or the '=' of a one-'='
\* padding became whitespace) is decrypted like the envelope itself.
C4_EditedBytesSentinel ==
  \A c \in ReturningDecrypts : \A e \in issued :
    OneCharEdit(calls[c].arg, e.env) =>
      IF atob(calls[c].arg) = atob(e.env)
        THEN calls[c].out = Decrypted(calls[c].key, e.iv, e.env)
        ELSE calls[c].out = Value(Sentinel)

C4_Witness ==
  \E c \in ReturningDecrypts : \E e \in issued :
    /\ OneCharEdit(calls[c].arg, e.env)
    /\ atob(calls[c].arg).ok
    /\ atob(calls[c].arg) # atob(e.env)
    /\ calls[c].key = e.key
    /\ calls[c].out = Value(Sentinel)

\* C5: decrypt of a non-empty string that is not base64, or that decodes to
\* fewer than 12 bytes, returns the sentinel and raises no error.
C5_MalformedSentinel ==
  \A c \in ReturningDecrypts :
    (/\ calls[c].arg # <<>>
     /\ \/ ~atob(calls[c].arg).ok
        \/ Len(atob(calls[c].arg).bytes) < IvLen)
    => calls[c].out = Value(Sentinel)

C5_Witness ==
  \E c \in ReturningDecrypts :
    /\ atob(calls[c].arg).ok
    /\ Len(atob(calls[c].arg).bytes) < IvLen
    /\ Len(atob(calls[c].arg).bytes) > 0
    /\ calls[c].key # <<>>
    /\ calls[c].out = Value(Sentinel)

\* C6: whenever decrypt returns something other than "" and the sentinel, its
\* input decodes to a 12-byte nonce and a ciphertext+tag that authenticates
\* under the persisted key, and the value returned is exactly the plaintext that
\* was encrypted into it.
C6_NoWrongPlaintext ==
  \A c \in ReturningDecrypts :
    (calls[c].out.kind = "value" /\ calls[c].out.val \notin {<<>>, Sentinel}) =>
      LET combined == atob(calls[c].arg)
      IN /\ combined.ok
         /\ Len(combined.bytes) >= IvLen + TagLen
         /\ ImportedKey(storage) # <<>>
         /\ AesGcmDecrypt(ImportedKey(storage), SliceIv(combined.bytes),
                          SliceData(combined.bytes)).ok
         /\ \E e \in issued :
              atob(e.env).bytes = combined.bytes /\ calls[c].out.val = e.pt

\* C7: no two encrypt calls under one key use the same nonce, two encrypt calls
\* on the same plaintext return different envelopes, and every envelope decrypts
\* back to its plaintext.
C7_FreshNonceRoundTrip ==
  /\ \A e1, e2 \in issued :
       (e1.call # e2.call /\ e1.key = e2.key) => e1.iv # e2.iv
  /\ \A e1, e2 \in issued :
       (e1.call # e2.call /\ e1.pt = e2.pt) => e1.env # e2.env
  /\ \A c \in ReturningDecrypts : \A e \in issued :
       e.env = calls[c].arg => calls[c].out.val = e.pt

\* C8: encrypt("") and decrypt("") return "", whatever the key slot holds.
C8_EmptyIsEmpty ==
  \A c \in Calls :
    (calls[c].pc = "done" /\ calls[c].arg = <<>>) => calls[c].out = Value(<<>>)

C8_Witness ==
  \E c \in Calls :
    /\ calls[c].pc = "done"
    /\ calls[c].op = "encrypt"
    /\ calls[c].arg = <<>>
    /\ storage \in Unreadable
    /\ calls[c].out = Value(<<>>)

\* C9: Key Store calls made in sequence, storage left alone, all yield the key
\* the first call generated: later calls import the persisted value and write
\* nothing, and AES-GCM under the key of a later call opens every envelope made
\* so far to the bytes that were encrypted.
C9_SameKeyInSequence ==
  /\ keysGenerated <= 1
  /\ setItemCalls <= 1
  /\ \A c \in Calls :
       calls[c].pc \in {"haveKey", "cipher"} =>
         /\ calls[c].key = KeyBytes(1)
         /\ storage = btoa(KeyBytes(1))
         /\ \A e \in issued :
              AesGcmDecrypt(calls[c].key, e.iv, SliceData(atob(e.env).bytes))
                = [ok |-> TRUE, bytes |-> TextEncode(e.pt)]

C9_Witness ==
  \E c \in Calls : \E e \in issued :
    /\ e.call < c
    /\ calls[c].pc = "haveKey"
    /\ calls[c].keyData # Null
    /\ calls[c].key = e.key
    /\ setItemCalls = 1

\* C10: over any interleaving of calls, storage left alone, the key slot is
\* written once: after the first write the persisted value never changes.
C10_KeySlotWrittenOnce ==
  [][storage # Null => (storage' = storage /\ setItemCalls' = setItemCalls)]_vars

\* C11: when the Key Store fails during an encrypt or a decrypt of a non-empty
\* input, the call settles with an error, not with a value.
C11_KeyStoreFailurePropagates ==
  \A c \in Calls :
    (calls[c].pc = "done" /\ calls[c].at = "keystore") => calls[c].out = Thrown

\* C12: decrypt of an input that authenticates under the key but whose decrypted
\* bytes are not valid UTF-8 returns the sentinel.
C12_InvalidUtf8Sentinel ==
  \A c \in ReturningDecrypts :
    LET combined == atob(calls[c].arg)
    IN (/\ combined.ok
        /\ calls[c].key # <<>>
        /\ LET plaintext == AesGcmDecrypt(calls[c].key, SliceIv(combined.bytes),
                                          SliceData(combined.bytes))
           IN plaintext.ok /\ ~ValidUtf8(plaintext.bytes))
       => calls[c].out = Value(Sentinel)

\* C13: with the platform primitives available, encrypt of a non-empty plaintext
\* of any length returns an envelope and raises no error.
C13_EncryptAnyLength ==
  \A c \in Calls :
    (/\ calls[c].op = "encrypt"
     /\ calls[c].pc = "done"
     /\ calls[c].arg # <<>>
     /\ calls[c].at # "keystore")
    => (calls[c].out.kind = "value" /\ calls[c].out.val # <<>>)

\* C14: after the profile's storage is cleared (or overwritten), every decrypt
\* that is called later on an envelope created before that returns the sentinel.
C14_ClearedIsLost ==
  \A c \in ReturningDecrypts : \A e \in issued :
    (e.env = calls[c].arg /\ e.epoch < calls[c].epoch) => calls[c].out = Value(Sentinel)

C14_Witness ==
  \E c \in ReturningDecrypts : \E e \in issued :
    /\ e.env = calls[c].arg
    /\ e.epoch < calls[c].epoch
    /\ calls[c].keyData = Null
    /\ calls[c].key # e.key
    /\ storage = btoa(calls[c].key)
    /\ calls[c].out = Value(Sentinel)

\* a secret field value v handed to persistence for the typed value p: null or
\* empty, or an envelope encrypt returned for p, and not p itself
EncryptedFor(v, p) ==
  \/ v = Null
  \/ v = <<>>
  \/ v # p /\ \E e \in issued : e.env = v /\ e.pt = p

\* C15: every value handed to persistence in a password, token or content field
\* is null or empty or an envelope encrypt returned for the value the user typed,
\* on create and on update.
C15_OnlyEnvelopesPersisted ==
  \A r \in sent :
    /\ EncryptedFor(r.row.password, r.formData.password)
    /\ EncryptedFor(r.row.token, r.formData.token)
    /\ EncryptedFor(r.row.content, r.formData.content)

C15_Witness ==
  \E r \in sent :
    /\ r.row.op = "update"
    /\ r.formData.password # <<>>
    /\ r.formData.token # <<>>
    /\ \E e \in issued : e.env = r.row.password /\ e.pt = r.formData.password
    /\ \E e \in issued : e.env = r.row.token /\ e.pt = r.formData.token

\* the non-empty plaintexts passed to encrypt or recovered by decrypt so far
KnownPlaintexts ==
  ({e.pt : e \in issued}
   \cup {calls[c].arg : c \in {d \in Calls : calls[d].op = "encrypt"}}
   \cup {calls[c].out.val : c \in {d \in Calls : calls[d].op = "decrypt"}})
  \ {<<>>, Sentinel}

\* the keys in use so far, raw and as stored
KeyMaterial ==
  LET raw == ({e.key : e \in issued} \cup {calls[c].key : c \in Calls}
              \cup {KeyBytes(i) : i \in 1..keysGenerated}) \ {<<>>}
  IN raw \cup {btoa(k) : k \in raw}

\* C16: the log holds no plaintext passed to encrypt or recovered by decrypt and
\* no key material.
C16_NoSecretsLogged ==
  \A l \in log : \A i \in 1..Len(l.data) :
    l.data[i] \notin KnownPlaintexts \cup KeyMaterial

C16_Witness ==
  \E l \in log : \E c \in ReturningDecrypts : \E e \in issued :
    /\ l.error = "OperationError"
    /\ calls[c].arg = e.env
    /\ calls[c].key # <<>>
    /\ calls[c].err = "OperationError"

\* C17: once an audit_logs row has been inserted, no operation changes or
\* removes it.
C17_AuditTrailImmutable ==
  [][\A a \in auditLogs : a \in auditLogs']_vars

\* C18: after a view or an update of a shared text file by a signed-in user, an
\* audit_logs row with action_type 'text_file_access' and the file's id is stored.
C18_TextFileAccessAudited ==
  (lastOp.table = "shared_text_files" /\ lastOp.op \in {"view", "update"}) =>
    \E a \in auditLogs :
      /\ a.action_type = "text_file_access"
      /\ a.resource_id = lastOp.id
      /\ a.user_id = lastOp.uid

\* C19: an update or delete of a shared_passwords row issued by a user who is
\* neither its creator nor an administrator leaves the table unchanged, and every
\* authenticated user reads every row.
C19_OnlyCreatorOrAdminModifies ==
  /\ (/\ lastOp.table = "shared_passwords"
      /\ lastOp.op \in {"update", "delete"}
      /\ ~lastOp.permitted)
     => ~lastOp.changed
  /\ \A uid \in Users : SelectPasswords(uid) = passwords

C19_Witness ==
  /\ lastOp.table = "shared_passwords"
  /\ lastOp.op = "update"
  /\ ~lastOp.permitted
  /\ ~lastOp.changed
  /\ \E p \in passwords : p.id = lastOp.id /\ p.created_by \notin {NullId, lastOp.uid}

\* the calls whose Key Store read the key slot as absent and has returned
GeneratedOwnKey ==
  {c \in Calls : calls[c].keyData = Null /\ calls[c].pc \in {"haveKey", "cipher"}}

\* C20: when two Key Store calls both read the key slot as absent before either
\* has written it, each generates its own key and each writes the slot, and the
\* key that remains persisted is the one written last.
C20_LastWriterWins ==
  /\ \A c \in GeneratedOwnKey : calls[c].wrote > 0
  /\ \A c1, c2 \in GeneratedOwnKey :
       c1 # c2 => (calls[c1].key # calls[c2].key /\ calls[c1].wrote # calls[c2].wrote)
  /\ \A c \in GeneratedOwnKey :
       calls[c].wrote = setItemCalls => storage = btoa(calls[c].key)

C20_Witness ==
  \E c1, c2 \in GeneratedOwnKey :
    /\ calls[c1].wrote > 0
    /\ calls[c1].wrote < calls[c2].wrote
    /\ calls[c2].wrote = setItemCalls
    /\ calls[c1].key # calls[c2].key
    /\ storage = btoa(calls[c2].key)
    /\ storage # btoa(calls[c1].key)

\* a key has been persisted and no call is about to persist another one
Converged == storage # Null /\ \A c \in Calls : calls[c].pc \notin {"generate", "export"}

\* call c holds the key its Key Store returned
HoldsKey(c) == calls[c].pc \in {"haveKey", "cipher"}

\* C21: once a key is persisted and no Key Store call is in flight, the persisted
\* key never changes again, no call generates another one, and every call started
\* from then on works with the key that is persisted, all of them with the same.
C21_ConvergesOnPersistedKey ==
  /\ [][Converged => (Converged' /\ storage' = storage /\ keysGenerated' = keysGenerated)]_vars
  /\ [](\A c \in Calls :
         (calls[c].quiet /\ HoldsKey(c)) => calls[c].key = ImportedKey(storage))
  /\ [](\A e \in issued : e.quiet => e.key = ImportedKey(storage))

C21_Witness ==
  \E c \in Calls : \E e \in issued :
    /\ setItemCalls > 1
    /\ e.call < c
    /\ e.key # ImportedKey(storage)
    /\ calls[c].quiet
    /\ HoldsKey(c)
    /\ calls[c].key = ImportedKey(storage)

\* call c is made in this step
Called(c) == calls[c].pc = "idle" /\ calls'[c].pc # "idle"

\* C22: encrypt and decrypt of the empty string return "" in the step they are
\* called in, without entering the Key Store: the key slot, the keys generated and
\* the nonces drawn stay as they are, and a profile on which only empty strings
\* have been passed has no key.
C22_EmptyTouchesNothing ==
  /\ [][\A c \in Calls :
          (Called(c) /\ calls'[c].arg = <<>>) =>
            /\ calls'[c].pc = "done"
            /\ calls'[c].out = Value(<<>>)
            /\ calls'[c].key = <<>>
            /\ storage' = storage
            /\ setItemCalls' = setItemCalls
            /\ keysGenerated' = keysGenerated
            /\ noncesDrawn' = noncesDrawn]_vars
  /\ []((issued = {} /\ \A c \in Calls : calls[c].arg = <<>>) =>
          (storage = Null /\ keysGenerated = 0 /\ setItemCalls = 0))

C22_Witness ==
  \E c \in Calls :
    /\ c > 1
    /\ calls[c].op = "decrypt"
    /\ calls[c].arg = <<>>
    /\ calls[c].pc = "done"
    /\ calls[c - 1].pc = "settled"
    /\ storage = Null
    /\ keysGenerated = 0

\* the decrypt calls that have passed `combined.slice` on the envelope e.env
Slicing(e) ==
  {c \in Calls : calls[c].op = "decrypt" /\ calls[c].arg = e.env
                 /\ calls[c].pc \in {"cipher", "done"}}

\* C23: every envelope encrypt returned for a non-empty plaintext P is the base64
\* text of the 12-byte nonce followed by the AES-GCM output for the UTF-8 bytes of
\* P, 12 + (UTF-8 length of P) + 16 bytes in all, and decrypt takes the first 12
\* decoded bytes as the nonce and all the rest as ciphertext with tag.
C23_EnvelopeLayout ==
  \A e \in issued :
    LET combined == atob(e.env)
        data == TextEncode(e.pt)
        ciphertext == AesGcmEncrypt(e.key, e.iv, data)
    IN /\ e.pt # <<>>
       /\ combined.ok
       /\ e.env = btoa(combined.bytes)
       /\ Len(e.iv) = IvLen
       /\ Len(combined.bytes) = IvLen + Len(data) + TagLen
       /\ SubSeq(combined.bytes, 1, IvLen) = e.iv
       /\ SubSeq(combined.bytes, IvLen + 1, Len(combined.bytes)) = ciphertext
       /\ \A c \in Slicing(e) :
            /\ calls[c].iv = e.iv
            /\ calls[c].pc = "done" =>
                 LET plaintext == AesGcmDecrypt(calls[c].key, e.iv, ciphertext)
                 IN calls[c].out = IF plaintext.ok THEN Value(TextDecode(plaintext.bytes))
                                                   ELSE Value(Sentinel)

C23_Witness ==
  \E e \in issued : \E c \in Slicing(e) :
    /\ Len(TextEncode(e.pt)) > Len(e.pt)
    /\ Len(atob(e.env).bytes) = IvLen + Len(TextEncode(e.pt)) + TagLen
    /\ calls[c].pc = "done"
    /\ calls[c].iv = e.iv
    /\ calls[c].out.val # Sentinel

\* C24: every envelope encrypt returned for a non-empty plaintext P differs from
\* P: it is longer than P, in characters and in UTF-8 bytes.
C24_EnvelopeIsNotPlaintext ==
  \A e \in issued :
    /\ e.pt # <<>>
    /\ e.env # e.pt
    /\ Len(e.env) > Len(TextEncode(e.pt))
    /\ Len(TextEncode(e.pt)) >= Len(e.pt)

C24_Witness ==
  \E e1, e2 \in issued :
    /\ Len(e1.pt) = 1
    /\ Len(e2.pt) = MaxArguments - IvLen - TagLen
    /\ e1.env # e1.pt
    /\ e2.env # e2.pt

\* the credential form, once loadPasswordData has filled it
PasswordEditOpen ==
  /\ form.table = "shared_passwords"
  /\ form.edit
  /\ form.pc \in {"open", "password", "token", "send"}

\* what an optional secret column holds when no secret is set
NullOrEmpty == {Null, <<>>}

\* the rows the credential form has handed to the database
PasswordsSent == {r \in sent : r.row.table = "shared_passwords"}

\* C25: in the credential form, an empty password or token is handed to the
\* database as null and no encrypt call is made for it; a stored password or
\* token that is null or empty is loaded as the empty string and no decrypt call
\* is made for it; and a row saved from an edit form in which a field that was
\* unset has not been typed into has null in that field again.
C25_UnsetStaysUnset ==
  /\ \A r \in PasswordsSent : \A f \in {"password", "token"} :
       /\ r.formData[f] = <<>> => r.row[f] = Null
       /\ (r.row.op = "update" /\ r.editPassword[f] \in NullOrEmpty /\ f \notin r.retyped)
            => r.row[f] = Null
  /\ form.table = "shared_passwords" =>
       \A c \in Calls : calls[c].op # "none" => calls[c].arg \notin NullOrEmpty
  /\ PasswordEditOpen =>
       \A f \in {"password", "token"} :
         (form.editPassword[f] \in NullOrEmpty /\ f \notin form.retyped) => form[f] = <<>>

C25_Witness ==
  \E r1, r2 \in PasswordsSent :
    /\ r1.row.op = "insert"
    /\ r1.row.password = Null
    /\ r1.row.token # Null
    /\ r2.row.op = "update"
    /\ r2.editPassword = Columns(r1.row)
    /\ r2.retyped = {}
    /\ r2.row.password = Null
    /\ r2.row.token \notin {Null, r1.row.token}

\* the edit form, once the load has filled it
EditOpen == form.edit /\ form.pc \in {"open", "password", "token", "content", "send"}

\* the field a load that is under way is at
FieldLoading ==
  IF form.pc = "loadPassword" THEN "password"
  ELSE IF form.pc = "loadToken" THEN "token"
  ELSE "content"

\* C26: when decrypt fails on a stored value while the edit form loads, the form
\* opens with '[Decryption failed]' in that field; when the form is submitted with
\* the field not typed into, the row handed to update holds, in place of the
\* envelope the form was opened on, an envelope of the text '[Decryption failed]'
\* made under a key that does not open the original.
C26_SentinelOverwritesSecret ==
  /\ [][\A c \in Calls :
          (Loading /\ calls[c].pc = "done" /\ calls[c].err # "" /\ calls'[c].pc = "settled")
            => (form'.pc # "closed" /\ form'[FieldLoading] = Sentinel
                /\ FieldLoading \in form'.undecrypted)]_vars
  /\ [](EditOpen => \A f \in form.undecrypted \ form.retyped : form[f] = Sentinel)
  /\ [](\A r \in sent : \A f \in r.undecrypted \ r.retyped :
          /\ r.row.op = "update"
          /\ r.formData[f] = Sentinel
          /\ r.row[f] # r.editPassword[f]
          /\ \E e \in issued :
               /\ e.env = r.row[f]
               /\ e.pt = Sentinel
               /\ Decrypted(e.key, SliceIv(atob(r.editPassword[f]).bytes), r.editPassword[f])
                    = Value(Sentinel))

C26_Witness ==
  \E r \in sent : \E e0, e \in issued :
    /\ r.row.op = "update"
    /\ "password" \in r.undecrypted \ r.retyped
    /\ r.editPassword.password = e0.env
    /\ e0.pt = <<97>>
    /\ r.row.password = e.env
    /\ e.pt = Sentinel
    /\ e.key # e0.key

\* the calls whose Key Store found no persisted key and has returned a key that
\* the call still works with or has returned an envelope under
FoundNoKey ==
  {c \in Calls : /\ calls[c].keyData = Null
                 /\ calls[c].arg # <<>>
                 /\ calls[c].pc \in {"haveKey", "cipher", "done"}}

\* C27: a call whose Key Store found no persisted key works with the key it
\* generated, which it wrote to the key slot once; when another call has written
\* the slot since, the call still holds its own key, not the persisted one, and
\* the envelope its encrypt returns is made under its own key.
C27_LoserKeepsOwnKey ==
  \A c \in FoundNoKey :
    /\ calls[c].wrote > 0
    /\ \E i \in 1..keysGenerated : calls[c].key = KeyBytes(i)
    /\ calls[c].wrote = setItemCalls <=> ImportedKey(storage) = calls[c].key
    /\ (calls[c].op = "encrypt" /\ calls[c].pc = "done") =>
         \E e \in issued :
           /\ e.call = c
           /\ e.key = calls[c].key
           /\ calls[c].out = Value(Envelope(calls[c].key, e.iv, calls[c].arg))
           /\ calls[c].wrote < setItemCalls => e.key # ImportedKey(storage)

C27_Witness ==
  \E c \in FoundNoKey : \E e \in issued :
    /\ calls[c].op = "encrypt"
    /\ calls[c].pc = "done"
    /\ calls[c].wrote > 0
    /\ calls[c].wrote < setItemCalls
    /\ e.call = c
    /\ e.key = calls[c].key
    /\ ImportedKey(storage) # <<>>
    /\ ImportedKey(storage) # e.key

\* the key slot value v is non-empty and yields no key: atob or importKey fails on it
Corrupt(v) == ~NoKeyData(v) /\ ImportedKey(v) = <<>>

\* no call that read the key slot as absent is still on its way to setItem
NoPendingWrite == \A c \in Calls : calls[c].pc \notin {"generate", "export"}

\* C28: a call on a non-empty argument that reads a key slot value which is
\* non-empty but is no base64 text or no importable key fails in the Key Store,
\* generates nothing and writes nothing: encrypt raises, decrypt returns the
\* sentinel; and the slot keeps that value until it is changed from outside.
C28_CorruptKeyStaysCorrupt ==
  /\ [](\A c \in Calls :
          (calls[c].op # "none" /\ Corrupt(calls[c].keyData)) =>
            /\ calls[c].pc \in {"import", "done"}
            /\ calls[c].wrote = 0
            /\ calls[c].pc = "done" =>
                 /\ calls[c].at = "keystore"
                 /\ calls[c].out = IF calls[c].op = "encrypt" THEN Thrown ELSE Value(Sentinel))
  /\ [][(Corrupt(storage) /\ NoPendingWrite) =>
          \/ storageEvents' # storageEvents
          \/ /\ storage' = storage
             /\ keysGenerated' = keysGenerated
             /\ setItemCalls' = setItemCalls
             /\ NoPendingWrite']_vars

C28_Witness ==
  \E c \in Calls : \E l \in log :
    /\ calls[c].op = "encrypt"
    /\ calls[c].pc = "done"
    /\ calls[c].keyData \in Unreadable
    /\ calls[c].err = "DataError"
    /\ calls[c].out = Thrown
    /\ storage = calls[c].keyData
    /\ keysGenerated = 1
    /\ l.error = "DataError"

\* C29: toggleReveal calls decrypt at most once for a field of the record, and
\* once decryptedValues holds a non-empty text for the field the text stays there
\* and no further decrypt call is made for the field, whatever envelope the
\* record is reloaded with.
C29_RevealDecryptsOnce ==
  /\ [](\A f \in Fields : list.decrypts[f] <= 1)
  /\ [][\A f \in Fields :
          list.decryptedValues[f] # <<>> =>
            /\ list'.decryptedValues[f] = list.decryptedValues[f]
            /\ list'.decrypts[f] = list.decrypts[f]]_vars

\* the profiles with is_admin = true
Admins == {u \in Users : profiles[u].exists /\ profiles[u].is_admin}

\* C30: whatever the users do with their Admin Panels, one operation at a time,
\* at least one profile has is_admin = true.
C30_AdminRemains == Admins # {}

C30_Witness ==
  /\ ~profiles[1].exists
  /\ Admins = {2}
  /\ panel[1].open
  /\ panel[1].profile.is_admin
  /\ panel[1].users[2].is_admin
  /\ panel[2].open
  /\ ~panel[2].users[1].exists

====
